---- MODULE Spec2Model ----
(***************************************************************************)
(* Finance Performance Tracking (src/main.py): a Streamlit script with an  *)
(* expense form (tab "Expenses") and a filtered report (tab "Analysis")    *)
(* over the Expenses table of an external SQL store.                       *)
(*                                                                         *)
(* Encodings.  A calendar date is the integer YYYYMMDD, so that taking the *)
(* year or the month of a date is a computation.  An amount is an integer  *)
(* number of cents (the form's format is "%.2f").  A table (DataFrame) is  *)
(* the sequence of its rows, a row a record of its columns.                *)
(*                                                                         *)
(* Fault model.  pyodbc.connect, cursor.execute and conn.commit may raise; *)
(* conn.close and the Streamlit calls do not.  An exception that leaves    *)
(* the script ends the script run: nothing after it is executed.           *)
(***************************************************************************)
EXTENDS Integers, Sequences, FiniteSets

\* ------------------------------------------------------------------ bounds
\* The largest number of rows the store holds in the model.
MaxRows == 2

\* ------------------------------------------------------- program constants
\* st.number_input(..., min_value=0.0, ...)
min_value == 0

\* st.session_state.value = 0.0
default_value == 0

\* The options of the form's category selectbox.
Categories ==
    {"Grocery Shopping", "Bills", "Home", "Health", "Transport", "Debt", "Shopping/Fun"}

\* months = {1: "January", ..., 12: "December"}
months ==
    <<"January", "February", "March", "April", "May", "June",
      "July", "August", "September", "October", "November", "December">>

\* ------------------------------------------------------------ user inputs
\* What the user types in the amount field (cents).
AmountInputs == {-500, 0, 4250}

\* What the user picks for date, category and comments when submitting.
Entries ==
    { [date |-> 20240305, category |-> "Bills", description |-> "electric"],
      [date |-> 20231215, category |-> "Grocery Shopping", description |-> ""],
      [date |-> 20241220, category |-> "Bills", description |-> ""] }

\* What the user picks in the month multiselect (any subset of the month
\* names is possible; these are the ones the model draws).
MonthChoices ==
    { {}, {months[k] : k \in 1..12}, {"December"} }

VARIABLES
    store,              \* the Expenses table of the SQL store: Seq of records
    cache,              \* st.cache_data entry of load_data: [valid, df]
    value,              \* st.session_state.value, the form's amount
    pc,                 \* "idle": waiting for the user; "rerun": st.rerun() pending
    status,             \* how the last script run ended: "ok" or the error kind
    df,                 \* the table of the last script run (line 92)
    selected_year,      \* year multiselect
    selected_month,     \* month multiselect (month names)
    selected_category,  \* category selectbox
    filtered_df,        \* lines 111-116
    total,              \* filtered_df['amount'].sum()
    line_data,          \* lines 124-134
    view,               \* the elements the last run rendered in the Analysis tab
    event,              \* history, the last interaction: "start" (none yet),
                        \* "edit" or "rejected" (amount field), "submit", or
                        \* "run" (a script run without a submission)
    last                \* history: <<>> or <<[S, r]>>, the store before the last
                        \* committed insert and the values that were submitted

vars ==
    <<store, cache, value, pc, status, df, selected_year, selected_month,
      selected_category, filtered_df, total, line_data, view, event, last>>

\* ------------------------------------------------------------ pure helpers
\* Mutation: the year without its century.
YearShort(d) == (d \div 10000) % 100

\* df["date"].dt.year
Year(d) == d \div 10000

\* df["date"].dt.month
Month(d) == (d \div 100) % 100

\* One row of the loaded table: the four selected columns and the derived ones.
DeriveRow(r) ==
    [date |-> r.date, amount |-> r.amount, category |-> r.category,
     description |-> r.description, year |-> Year(r.date), month |-> Month(r.date)]

\* load_data's body on a successful connection.
LoadTable(s) == [i \in 1..Len(s) |-> DeriveRow(s[i])]

\* The row the INSERT statement writes.
InsertRow(d, v, c, t) ==
    [date |-> d, amount |-> v, category |-> c, description |-> t]

\* Mutation: an insert that skips a row the store already holds.
InsertUnique(s, d, v, c, t) ==
    IF \E i \in 1..Len(s) : s[i] = InsertRow(d, v, c, t)
    THEN s ELSE Append(s, InsertRow(d, v, c, t))

\* cursor.execute(insert_query, ...); conn.commit()
InsertInto(s, d, v, c, t) == Append(s, InsertRow(d, v, c, t))

\* Mutation: a number input without min_value.
NumberInputNoMin(cur, v) == v

\* The number input: a value below min_value is not accepted and the
\* widget keeps the value it had.
NumberInput(cur, v) == IF v >= min_value THEN v ELSE cur

\* df["year"].unique()
YearsOf(t) == {t[i].year : i \in 1..Len(t)}

\* df["category"].unique()
CategoriesOf(t) == {t[i].category : i \in 1..Len(t)}

\* [k for k, v in months.items() if v in selected_month]
MonthNumbers(ms) == {k \in DOMAIN months : months[k] \in ms}

\* Mutation: the year filter of line 111, without the pass-through.
FilterByYearsNoPass(t, ys) == SelectSeq(t, LAMBDA r : r.year \in ys)

\* line 113
FilterByYears(t, ys) ==
    IF ys # {} THEN SelectSeq(t, LAMBDA r : r.year \in ys) ELSE t

\* line 114
FilterByMonths(t, ms) ==
    IF ms # {} THEN SelectSeq(t, LAMBDA r : r.month \in MonthNumbers(ms)) ELSE t

\* Mutation: the category filter without the "All" sentinel.
FilterByCategoryNoSentinel(t, c) == SelectSeq(t, LAMBDA r : r.category = c)

\* lines 115-116
FilterByCategory(t, c) ==
    IF c # "All" THEN SelectSeq(t, LAMBDA r : r.category = c) ELSE t

\* lines 113-116
Filtered(t, ys, ms, c) ==
    FilterByCategory(FilterByMonths(FilterByYears(t, ys), ms), c)

\* Series.sum(): 0 for no rows.
RECURSIVE SumAmount(_)
SumAmount(t) ==
    IF t = <<>> THEN 0 ELSE t[1].amount + SumAmount(Tail(t))

\* Mutation: the rows counted instead of their amounts summed.
TotalSpendingCount(t) == Len(t)

\* filtered_df['amount'].sum()
TotalSpending(t) == SumAmount(t)

\* groupby sorts its keys: (year, month) in lexicographic order.
KeyLE(a, b) == a[1] < b[1] \/ (a[1] = b[1] /\ a[2] <= b[2])

RECURSIVE SortKeys(_)
SortKeys(K) ==
    IF K = {} THEN <<>>
    ELSE LET m == CHOOSE k \in K : \A j \in K : KeyLE(k, j)
         IN  <<m>> \o SortKeys(K \ {m})

\* t.groupby(["year", "month"])["amount"].sum().reset_index(), then
\* ["month"].map(months)
GroupByYearMonth(t) ==
    LET keys == SortKeys({<<t[i].year, t[i].month>> : i \in 1..Len(t)})
    IN  [i \in 1..Len(keys) |->
            [year   |-> keys[i][1],
             month  |-> months[keys[i][2]],
             amount |-> SumAmount(SelectSeq(t,
                            LAMBDA r : r.year = keys[i][1] /\ r.month = keys[i][2]))]]

\* line_data as the chart receives it.  Lines 124-126 build a table that is
\* restricted to the selected years; line 133 assigns line_data again, from
\* the whole df, so the selected years do not reach the chart.
LineData(t, ys) == GroupByYearMonth(t)

\* The defaults of the three filter widgets (lines 106-108).
\* default=[df["year"].max()]
DefaultYears(t) == {y \in YearsOf(t) : \A z \in YearsOf(t) : z <= y}
DefaultMonths == {months[k] : k \in DOMAIN months}
DefaultCategory == "All"

\* What the Analysis tab renders.
NoView == {}
NoDataView == {"warning"}
ReportView == {"metric", "line_chart", "pie_chart", "table"}

\* st.cache_data.clear()
ClearedCache == [valid |-> FALSE, df |-> <<>>]

\* Mutation: the cache left as it is after an insert.
CacheKept(c) == c

\* The cache after a committed insert (line 87).
CacheAfterInsert(c) == ClearedCache

\* Mutation: a failed insert that leaves its row behind.
PartialWrite(s, d, v, c, t) == Append(s, InsertRow(d, v, c, t))

\* The store after execute or commit raised: the statement is a single
\* INSERT in a transaction that was not committed, so nothing is written.
RolledBack(s, d, v, c, t) == s

\* Mutation: the emptiness test always false.
NeverEmpty(t) == FALSE

\* df.empty
IsEmpty(t) == t = <<>>

\* ---------------------------------------------------------------- actions
Init ==
    /\ store = <<>>
    /\ cache = ClearedCache
    /\ value = default_value
    /\ pc = "idle"
    /\ status = "ok"
    /\ df = <<>>
    /\ selected_year = {}
    /\ selected_month = {}
    /\ selected_category = DefaultCategory
    /\ filtered_df = <<>>
    /\ total = 0
    /\ line_data = <<>>
    /\ view = NoView
    /\ event = "start"
    /\ last = <<>>

\* The script run ends in an exception of kind k before line 92: the page
\* shows the exception and the Analysis tab renders nothing.
Abort(k) ==
    /\ status' = k
    /\ df' = <<>>
    /\ selected_year' = {}
    /\ selected_month' = {}
    /\ selected_category' = DefaultCategory
    /\ filtered_df' = <<>>
    /\ total' = 0
    /\ line_data' = <<>>
    /\ view' = NoView

\* Lines 92-150 with load_data() = t and the filter widgets at ys, ms, c.
Render(t, ys, ms, c) ==
    /\ status' = "ok"
    /\ df' = t
    /\ IF IsEmpty(t)
       THEN /\ view' = NoDataView
            /\ selected_year' = {}
            /\ selected_month' = {}
            /\ selected_category' = DefaultCategory
            /\ filtered_df' = <<>>
            /\ total' = 0
            /\ line_data' = <<>>
       ELSE /\ view' = ReportView
            /\ selected_year' = ys
            /\ selected_month' = ms
            /\ selected_category' = c
            /\ filtered_df' = Filtered(t, ys, ms, c)
            /\ total' = TotalSpending(Filtered(t, ys, ms, c))
            /\ line_data' = LineData(t, ys)

\* load_data() when it returns: the cached table, or a fresh one.
Loaded == IF cache.valid THEN cache.df ELSE LoadTable(store)

\* The user types v in the amount field.  Inside a form this runs no script.
EnterAmount(v) ==
    /\ pc = "idle"
    /\ value' = NumberInput(value, v)
    /\ event' = IF value' = v THEN "edit" ELSE "rejected"
    /\ UNCHANGED <<store, cache, pc, status, df, selected_year, selected_month,
                   selected_category, filtered_df, total, line_data, view, last>>

\* Submit, and get_connection() raises (lines 75, 28-30).
SubmitConnectFail(e) ==
    /\ pc = "idle"
    /\ Abort("ConnectionError")
    /\ event' = "submit"
    /\ UNCHANGED <<store, cache, value, pc, last>>

\* Submit, and cursor.execute or conn.commit raises (lines 82-83).
SubmitInsertFail(e) ==
    /\ pc = "idle"
    /\ store' = RolledBack(store, e.date, value, e.category, e.description)
    /\ Abort("InsertError")
    /\ event' = "submit"
    /\ UNCHANGED <<cache, value, pc, last>>

\* Submit, and the insert commits (lines 74-89): the row is written, the
\* cache cleared, the form reset, and st.rerun() ends the run.  The page
\* keeps what it showed until the rerun renders.
SubmitOk(e) ==
    /\ pc = "idle"
    /\ Len(store) < MaxRows
    /\ store' = InsertInto(store, e.date, value, e.category, e.description)
    /\ cache' = CacheAfterInsert(cache)
    /\ value' = default_value
    /\ pc' = "rerun"
    /\ status' = "ok"
    /\ event' = "submit"
    /\ last' = <<[S |-> store,
                  r |-> [date |-> e.date, amount |-> value,
                         category |-> e.category, description |-> e.description]]>>
    /\ UNCHANGED <<df, selected_year, selected_month, selected_category,
                   filtered_df, total, line_data, view>>

\* A script run without a submission (the pending rerun, or a rerun the
\* user asks for), load_data() returning.  The filter widgets keep their
\* state when keep holds and the state is among the new options, and take
\* their defaults otherwise.
PageRun(keep) ==
    LET t == Loaded
        kept == /\ keep
                /\ view = ReportView
                /\ selected_year \subseteq YearsOf(t)
                /\ selected_category \in {"All"} \cup CategoriesOf(t)
    IN  /\ cache' = [valid |-> TRUE, df |-> t]
        /\ Render(t,
                  IF kept THEN selected_year ELSE DefaultYears(t),
                  IF kept THEN selected_month ELSE DefaultMonths,
                  IF kept THEN selected_category ELSE DefaultCategory)
        /\ pc' = "idle"
        /\ event' = "run"
        /\ UNCHANGED <<store, value, last>>

\* A script run without a submission in which load_data() raises: the
\* cache holds nothing and get_connection() fails (lines 34, 28-30).
PageRunLoadFail ==
    /\ ~cache.valid
    /\ Abort("ConnectionError")
    /\ pc' = "idle"
    /\ event' = "run"
    /\ UNCHANGED <<store, cache, value, last>>

\* The user changes the filter widgets of a rendered report; the script
\* runs again with the new selection.
ChangeFilters(ys, ms, c) ==
    LET t == Loaded
    IN  /\ pc = "idle"
        /\ view = ReportView
        /\ <<ys, ms, c>> # <<selected_year, selected_month, selected_category>>
        /\ cache' = [valid |-> TRUE, df |-> t]
        /\ Render(t, ys, ms, c)
        /\ event' = "run"
        /\ UNCHANGED <<store, value, pc, last>>

Next ==
    \/ \E v \in AmountInputs : EnterAmount(v)
    \/ \E e \in Entries : SubmitConnectFail(e)
    \/ \E e \in Entries : SubmitInsertFail(e)
    \/ \E e \in Entries : SubmitOk(e)
    \/ \E keep \in BOOLEAN : PageRun(keep)
    \/ PageRunLoadFail
    \/ \E ys \in SUBSET YearsOf(df), ms \in MonthChoices,
          c \in {"All"} \cup CategoriesOf(df) : ChangeFilters(ys, ms, c)

Spec == Init /\ [][Next]_vars

\* ----------------------------------------------------------- properties
\* The rows of a table, and how often a row occurs in it.
RowsOf(t) == {t[i] : i \in 1..Len(t)}
Count(t, r) == Cardinality({i \in 1..Len(t) : t[i] = r})

\* out holds exactly the rows of in that satisfy P, as often as in does.
KeepsExactly(out, in, P(_)) ==
    \A r \in RowsOf(in) \cup RowsOf(out) :
        Count(out, r) = IF P(r) THEN Count(in, r) ELSE 0

\* The sum of the amounts of the rows of t at the indices I.
RECURSIVE SumAt(_, _)
SumAt(t, I) ==
    IF I = {} THEN 0
    ELSE LET i == CHOOSE j \in I : TRUE IN t[i].amount + SumAt(t, I \ {i})

\* The rows of t at the indices I, in the order of t.
RECURSIVE RowsAt(_, _)
RowsAt(t, I) ==
    IF t = <<>> THEN <<>>
    ELSE RowsAt(SubSeq(t, 1, Len(t) - 1), I) \o
         (IF Len(t) \in I THEN <<t[Len(t)]>> ELSE <<>>)

\* The page shows the Analysis tab of a script run that loaded a table.
Shown == pc = "idle" /\ status = "ok" /\ view # NoView

\* A row passes the three filters as selected.
Passes(r) ==
    /\ selected_year = {} \/ r.year \in selected_year
    /\ selected_month = {} \/ months[r.month] \in selected_month
    /\ selected_category = "All" \/ r.category = selected_category

\* C1: after a committed insert of r into a store S, the reloaded table is
\* the rows of S followed by exactly one more row with the four fields of r,
\* year = year(date) and month = month(date); 2024-03-05 gives 2024 and 3,
\* and on an empty store the table has exactly one row.
C1_RoundTrip ==
    (Shown /\ last # <<>>) =>
        LET S == last[1].S
            r == last[1].r
        IN  /\ Len(df) = Len(S) + 1
            /\ \A i \in 1..Len(S) :
                   /\ df[i].date = S[i].date
                   /\ df[i].amount = S[i].amount
                   /\ df[i].category = S[i].category
                   /\ df[i].description = S[i].description
            /\ df[Len(S) + 1] =
                   [date |-> r.date, amount |-> r.amount, category |-> r.category,
                    description |-> r.description,
                    year |-> r.date \div 10000, month |-> (r.date \div 100) % 100]
            /\ r.date = 20240305 =>
                   df[Len(S) + 1].year = 2024 /\ df[Len(S) + 1].month = 3
            /\ S = <<>> => Len(df) = 1

\* The spec's example, on an empty store, reloaded.
C1_Witness ==
    /\ Shown
    /\ event = "run"
    /\ last # <<>>
    /\ last[1].S = <<>>
    /\ last[1].r = [date |-> 20240305, amount |-> 4250, category |-> "Bills",
                    description |-> "electric"]
    /\ Len(df) = 1

\* C2: a run reuses the cached table while the cache holds one, a committed
\* insert leaves the cache cleared before the next run, and so the table the
\* Analysis tab works on is the current content of the store.
C2_CacheLifecycle ==
    /\ [](Shown => df = LoadTable(store))
    /\ [](cache.valid => cache.df = LoadTable(store))
    /\ [][(pc = "idle" /\ pc' = "rerun") => ~cache'.valid]_vars
    /\ [][(cache.valid /\ event' = "run") => (df' = cache.df /\ cache' = cache)]_vars

\* Two committed inserts, each followed by its reload, the last table
\* served again from the cache.
C2_Witness ==
    /\ Shown
    /\ event = "run"
    /\ view = ReportView
    /\ cache.valid
    /\ Len(store) = 2
    /\ Len(df) = 2

\* C3: the monthly trend has exactly one row per (year, month) pair among the
\* rows whose year is selected, each with the sum of the amounts of that pair
\* (stated for a non-empty selection of years, where the year filter and the
\* restriction of line 125 agree on the rows).
C3_MonthlyTrendYearFiltered ==
    (view = ReportView /\ selected_year # {}) =>
        LET R == SelectSeq(df, LAMBDA r : r.year \in selected_year)
            pairs == {<<R[i].year, months[R[i].month]>> : i \in 1..Len(R)}
        IN  /\ Len(line_data) = Cardinality(pairs)
            /\ {<<line_data[i].year, line_data[i].month>> : i \in 1..Len(line_data)}
                   = pairs
            /\ \A i \in 1..Len(line_data) :
                   line_data[i].amount =
                       SumAt(R, {j \in 1..Len(R) :
                                   /\ R[j].year = line_data[i].year
                                   /\ months[R[j].month] = line_data[i].month})

\* C4: for a non-empty selection the year filter and the month filter keep
\* exactly the rows whose year, or month name, is selected; for the empty
\* selection they return the table unchanged.
C4_YearMonthFilters ==
    view = ReportView =>
        /\ \A ys \in SUBSET (YearsOf(df) \cup {2022}) :
              IF ys = {} THEN FilterByYears(df, ys) = df
              ELSE KeepsExactly(FilterByYears(df, ys), df, LAMBDA r : r.year \in ys)
        /\ \A ms \in MonthChoices \cup {{"March"}, {"March", "December"}} :
              IF ms = {} THEN FilterByMonths(df, ms) = df
              ELSE KeepsExactly(FilterByMonths(df, ms), df,
                                LAMBDA r : months[r.month] \in ms)
        /\ selected_category = "All" =>
              KeepsExactly(filtered_df, df,
                           LAMBDA r : /\ selected_year = {} \/ r.year \in selected_year
                                      /\ selected_month = {}
                                            \/ months[r.month] \in selected_month)

\* No year selected and December selected: the year filter passes the table
\* through and the month filter drops a row.
C4_Witness ==
    /\ view = ReportView
    /\ selected_year = {}
    /\ selected_month = {"December"}
    /\ selected_category = "All"
    /\ Len(df) = 2
    /\ Len(filtered_df) = 1

\* C5: the category filter returns its rows unchanged for "All" and exactly
\* the rows of category c for any other c.
C5_CategoryFilter ==
    view = ReportView =>
        LET rows == FilterByMonths(FilterByYears(df, selected_year), selected_month)
        IN  /\ \A c \in {"All"} \cup Categories :
                  IF c = "All" THEN FilterByCategory(rows, c) = rows
                  ELSE KeepsExactly(FilterByCategory(rows, c), rows,
                                    LAMBDA r : r.category = c)
            /\ IF selected_category = "All" THEN filtered_df = rows
               ELSE KeepsExactly(filtered_df, rows,
                                 LAMBDA r : r.category = selected_category)

\* A category is selected and the filter drops a row of another category.
C5_Witness ==
    /\ view = ReportView
    /\ selected_category = "Bills"
    /\ selected_year = {}
    /\ selected_month = {}
    /\ Len(df) = 2
    /\ Len(filtered_df) = 1

\* C6: a submission in which connecting or inserting fails ends in the error,
\* writes no row, leaves the cache as it is and queues no further run; any
\* step writes one row or none.
C6_FailedSubmission ==
    /\ [][(event' = "submit" /\ status' # "ok") =>
              /\ status' \in {"ConnectionError", "InsertError"}
              /\ store' = store
              /\ cache' = cache
              /\ pc' = "idle"
              /\ view' = NoView]_vars
    /\ [][Len(store') = Len(store) \/ Len(store') = Len(store) + 1]_vars

\* An insert failed while the store held a row and the cache a table.
C6_Witness ==
    /\ event = "submit"
    /\ status = "InsertError"
    /\ cache.valid
    /\ Len(store) = 1
    /\ value = 4250

\* C7: every row of the store has amount >= 0 and so has the form's amount:
\* zero is accepted, a negative input is not.
C7_NonNegativeAmount ==
    /\ \A i \in 1..Len(store) : store[i].amount >= 0
    /\ value >= min_value

\* A row of amount 0 was inserted, and a negative input was rejected.
C7_Witness ==
    /\ event = "rejected"
    /\ \E i \in 1..Len(store) : store[i].amount = 0

\* C8: the store only grows at its end, by one row per step; it changes in
\* no step but a committed submission, and every committed submission adds
\* exactly one row, also when the store holds the same values already.
C8_AppendOnly ==
    [][/\ Len(store') >= Len(store)
       /\ SubSeq(store', 1, Len(store)) = store
       /\ store' # store => (event' = "submit" /\ status' = "ok" /\ pc' = "rerun")
       /\ (pc = "idle" /\ pc' = "rerun") => Len(store') = Len(store) + 1]_vars

\* The same values submitted twice: two equal rows.
C8_Witness ==
    /\ Len(store) = 2
    /\ store[1] = store[2]

\* C9: a run that loads an empty table ends without an error and renders the
\* "no data" warning and nothing else: no filter, sum, chart or table.
C9_EmptyStore ==
    /\ (Shown /\ df = <<>>) =>
           /\ view = NoDataView
           /\ filtered_df = <<>>
           /\ line_data = <<>>
           /\ total = 0
    /\ (pc = "idle" /\ event = "run" /\ cache.valid /\ cache.df = <<>>) =>
           (status = "ok" /\ view = NoDataView)

\* A run on the empty store.
C9_Witness ==
    /\ Shown
    /\ event = "run"
    /\ store = <<>>
    /\ cache.valid
    /\ view = NoDataView

\* C10: the total is the sum of the amounts of exactly the rows that pass
\* the three filters; it is 0 for no rows, and the totals of two disjoint
\* parts of the rows add up to the total of the rows.
C10_TotalSpending ==
    view = ReportView =>
        /\ total = SumAt(df, {i \in 1..Len(df) : Passes(df[i])})
        /\ filtered_df = <<>> => total = 0
        /\ TotalSpending(<<>>) = 0
        /\ \A A \in SUBSET (1..Len(filtered_df)) :
              TotalSpending(RowsAt(filtered_df, A))
                + TotalSpending(RowsAt(filtered_df, (1..Len(filtered_df)) \ A))
                = total

\* Two rows pass a category filter and the total is their sum.
C10_Witness ==
    /\ view = ReportView
    /\ selected_category = "Bills"
    /\ Len(filtered_df) = 2
    /\ filtered_df[1].amount = 4250
    /\ filtered_df[2].amount = 4250
    /\ total = 8500

====
